---- MODULE Spec2Model ----
(***************************************************************************)
(* Persistence and synchronisation engine of the practice manager:         *)
(*   - identifier registry and the "new practice" flow                     *)
(*       (id_registry.py, utils_lookup.py, apertura_pratica_popup.py)      *)
(*   - canonical document store (repo.py, salva_tutto.py, history.py)      *)
(*   - relational mirror (repo_sqlite*.py, db_migrations.py)               *)
(***************************************************************************)
EXTENDS Integers, Sequences, FiniteSets, TLC

\* ------------------------------------------------------------------------
\* Bounds
\* ------------------------------------------------------------------------
MaxSalva == 3            \* "SALVA" clicks explored over all processes
FirstYear == 2025        \* date.today().year at start
MaxYearSteps == 1        \* new-year rollovers explored

Procs == {"p1", "p2"}        \* application processes sharing lib_json/
Names == {"A", "B"}          \* practice folder names typed by the user
NoCache == [loaded |-> FALSE, recs |-> <<>>]   \* _read_json not yet called
NoDoc == <<0, 0>>                              \* no pratica.json in the folder

MaxSaves == 2            \* canonical-store saves explored over all writers
MaxCrashes == 1          \* writer processes killed in mid-save
TickStep == 40           \* seconds the clock advances in one step
MaxTime == 40            \* last clock value explored
Stale == 30              \* _lock(stale=30.0)
Timeout == 10            \* _lock(timeout=10.0)
MaxRows == 2             \* child rows per collection of an aggregate
MaxCalls == 3            \* calls of upsert_pratica explored

Writers == {"w1", "w2"}                 \* concurrent savers of one practice
Payloads == {"x", "y"}                  \* field values of a practice
Kinds == {"write_pratica", "save_pratica", "salva_pratica"}
InodeIds == 1..(Cardinality(Writers) + 2)

\* ========================================================================
\* Part A - identifier registry and practice creation
\* ========================================================================
VARIABLES
    registry,       \* lib_json/id_pratiche.json: the "records" list
    cache,          \* per process: lru_cache of utils_lookup._read_json
    today,          \* date.today().year
    apc,            \* per process: position inside salva()
    numero,         \* salva(): numero returned by load_next_id
    anno,           \* salva(): anno returned by load_next_id
    nome,           \* salva(): cartella_pratica
    esiste,         \* salva(): first component of _id_exists
    nome_esistente, \* salva(): second component of _id_exists
    scelta,         \* which dialog callback ran: none / overwrite / next
    def_num,        \* _prosegui(def_num, def_anno)
    data,           \* persist_after_save(): local `data` read by _read()
    folderDoc,      \* per practice folder: id stored in pratica.json
    folderHist,     \* per practice folder: number of lines of history.jsonl
    snaps,          \* snapshots written by dual_save: <<folder, num, anno>>
    salvaCount      \* SALVA clicks so far

avars == <<registry, cache, today, apc, numero, anno, nome, esiste,
           nome_esistente, scelta, def_num, data, folderDoc, folderHist,
           snaps, salvaCount>>

Rec(n, a, nm) == [num_pratica |-> n, anno_pratica |-> a, nome_pratica |-> nm]

RECURSIVE MaxOf(_)
MaxOf(S) == IF S = {} THEN 0
            ELSE LET x == CHOOSE y \in S : TRUE
                     m == MaxOf(S \ {x})
                 IN IF x > m THEN x ELSE m

\* id_registry.load_next_id: max(num)+1 over the records of this year, else 1
NumsOfYear(recs, y) ==
    {recs[i].num_pratica : i \in {j \in 1..Len(recs) : recs[j].anno_pratica = y}}

load_next_id(recs, y) ==
    LET nums == NumsOfYear(recs, y)
    IN IF nums # {} THEN MaxOf(nums) + 1 ELSE 1

\* utils_lookup._read_json: the first call of a process reads the file,
\* every later call returns the cached value (clear_caches is never called)
read_json(c, file) == IF c.loaded THEN c.recs ELSE file
Cached(recs) == [loaded |-> TRUE, recs |-> recs]

\* apertura_pratica_popup._id_exists over load_id_pratiche() (sorted by
\* (anno, num); the sort is stable, so the first match is the oldest record)
IdMatches(recs, n, a) ==
    {i \in 1..Len(recs) : recs[i].num_pratica = n /\ recs[i].anno_pratica = a}

id_exists(recs, n, a) ==
    LET m == IdMatches(recs, n, a)
    IN IF m = {} THEN <<FALSE, "">>
       ELSE <<TRUE, recs[CHOOSE i \in m : \A j \in m : i <= j].nome_pratica>>

\* apertura_pratica_popup._next_id_for_year
next_id_for_year(recs, a) == MaxOf(NumsOfYear(recs, a)) + 1

\* id_registry.persist_after_save, second half: append and _write
persist_append(d, n, a, nm) == Append(d, Rec(n, a, nm))

AInit ==
    /\ registry = <<>>
    /\ cache = [p \in Procs |-> NoCache]
    /\ today = FirstYear
    /\ apc = [p \in Procs |-> "idle"]
    /\ numero = [p \in Procs |-> 0]
    /\ anno = [p \in Procs |-> 0]
    /\ nome = [p \in Procs |-> "A"]
    /\ esiste = [p \in Procs |-> FALSE]
    /\ nome_esistente = [p \in Procs |-> ""]
    /\ scelta = [p \in Procs |-> "none"]
    /\ def_num = [p \in Procs |-> 0]
    /\ data = [p \in Procs |-> <<>>]
    /\ folderDoc = [n \in Names |-> NoDoc]
    /\ folderHist = [n \in Names |-> 0]
    /\ snaps = {}
    /\ salvaCount = 0

\* the calendar year changes while the application runs
NewYear ==
    /\ today < FirstYear + MaxYearSteps
    /\ today' = today + 1
    /\ UNCHANGED <<registry, cache, apc, numero, anno, nome, esiste,
                   nome_esistente, scelta, def_num, data, folderDoc,
                   folderHist, snaps, salvaCount>>

\* "Elenco pratiche": _read_ids_for_table calls load_id_pratiche
ElencoPratiche(p) ==
    /\ apc[p] = "idle"
    /\ ~cache[p].loaded
    /\ cache' = [cache EXCEPT ![p] = Cached(read_json(cache[p], registry))]
    /\ UNCHANGED <<registry, today, apc, numero, anno, nome, esiste,
                   nome_esistente, scelta, def_num, data, folderDoc,
                   folderHist, snaps, salvaCount>>

\* salva(): validation, makedirs, numero, anno = load_next_id()
SalvaLoadNextId(p) ==
    /\ apc[p] = "idle"
    /\ salvaCount < MaxSalva
    /\ \E nm \in Names : nome' = [nome EXCEPT ![p] = nm]
    /\ numero' = [numero EXCEPT ![p] = load_next_id(registry, today)]
    /\ anno' = [anno EXCEPT ![p] = today]
    /\ scelta' = [scelta EXCEPT ![p] = "none"]
    /\ apc' = [apc EXCEPT ![p] = "exists"]
    /\ salvaCount' = salvaCount + 1
    /\ UNCHANGED <<registry, cache, today, esiste, nome_esistente, def_num,
                   data, folderDoc, folderHist, snaps>>

\* salva(): esiste, nome_esistente = _id_exists(numero, anno), then either
\* the conflict dialog is opened or _prosegui(numero, anno) starts
SalvaIdExists(p) ==
    /\ apc[p] = "exists"
    /\ LET recs == read_json(cache[p], registry)
           r == id_exists(recs, numero[p], anno[p])
       IN /\ cache' = [cache EXCEPT ![p] = Cached(recs)]
          /\ esiste' = [esiste EXCEPT ![p] = r[1]]
          /\ nome_esistente' = [nome_esistente EXCEPT ![p] = r[2]]
          /\ IF r[1] /\ r[2] # nome[p]
             THEN /\ apc' = [apc EXCEPT ![p] = "dialog"]
                  /\ UNCHANGED def_num
             ELSE /\ apc' = [apc EXCEPT ![p] = "write"]
                  /\ def_num' = [def_num EXCEPT ![p] = numero[p]]
    /\ UNCHANGED <<registry, today, numero, anno, nome, scelta, data,
                   folderDoc, folderHist, snaps, salvaCount>>

\* dialog button "Sovrascrivi (stesso ID)"
Sovrascrivi(p) ==
    /\ apc[p] = "dialog"
    /\ scelta' = [scelta EXCEPT ![p] = "overwrite"]
    /\ def_num' = [def_num EXCEPT ![p] = numero[p]]
    /\ apc' = [apc EXCEPT ![p] = "write"]
    /\ UNCHANGED <<registry, cache, today, numero, anno, nome, esiste,
                   nome_esistente, data, folderDoc, folderHist, snaps,
                   salvaCount>>

\* dialog button "Usa prossimo ID"
UsaProssimo(p) ==
    /\ apc[p] = "dialog"
    /\ LET recs == read_json(cache[p], registry)
       IN /\ cache' = [cache EXCEPT ![p] = Cached(recs)]
          /\ def_num' = [def_num EXCEPT ![p] = next_id_for_year(recs, anno[p])]
    /\ scelta' = [scelta EXCEPT ![p] = "next"]
    /\ apc' = [apc EXCEPT ![p] = "write"]
    /\ UNCHANGED <<registry, today, numero, anno, nome, esiste,
                   nome_esistente, data, folderDoc, folderHist, snaps,
                   salvaCount>>

\* dialog button "Annulla"
Annulla(p) ==
    /\ apc[p] = "dialog"
    /\ apc' = [apc EXCEPT ![p] = "idle"]
    /\ UNCHANGED <<registry, cache, today, numero, anno, nome, esiste,
                   nome_esistente, scelta, def_num, data, folderDoc,
                   folderHist, snaps, salvaCount>>

\* _prosegui: write_pratica(folder, pratica_data).  updated_at is set from
\* the clock, so the document equals the stored one only when the id is the
\* same and the clock second has not changed (sameSecond).
ProseguiWrite(p) ==
    /\ apc[p] = "write"
    /\ \E sameSecond \in BOOLEAN :
         LET after == <<def_num[p], anno[p]>>
             unchanged == sameSecond /\ folderDoc[nome[p]] = after
         IN /\ folderDoc' = IF unchanged THEN folderDoc
                            ELSE [folderDoc EXCEPT ![nome[p]] = after]
            /\ folderHist' = IF unchanged THEN folderHist
                             ELSE [folderHist EXCEPT ![nome[p]] = @ + 1]
    /\ apc' = [apc EXCEPT ![p] = "persist_read"]
    /\ UNCHANGED <<registry, cache, today, numero, anno, nome, esiste,
                   nome_esistente, scelta, def_num, data, snaps, salvaCount>>

\* persist_after_save: data = _read()
PersistRead(p) ==
    /\ apc[p] = "persist_read"
    /\ data' = [data EXCEPT ![p] = registry]
    /\ apc' = [apc EXCEPT ![p] = "persist_write"]
    /\ UNCHANGED <<registry, cache, today, numero, anno, nome, esiste,
                   nome_esistente, scelta, def_num, folderDoc, folderHist,
                   snaps, salvaCount>>

\* persist_after_save: data["records"].append(rec); _write(data)
PersistWrite(p) ==
    /\ apc[p] = "persist_write"
    /\ registry' = persist_append(data[p], def_num[p], anno[p], nome[p])
    /\ apc' = [apc EXCEPT ![p] = "dual"]
    /\ UNCHANGED <<cache, today, numero, anno, nome, esiste, nome_esistente,
                   scelta, def_num, data, folderDoc, folderHist, snaps,
                   salvaCount>>

\* _prosegui: reindex, dual_save (a failure is only notified), dialog.close
ProseguiDualSave(p) ==
    /\ apc[p] = "dual"
    /\ \E ok \in BOOLEAN :
         snaps' = IF ok THEN snaps \cup {<<nome[p], def_num[p], anno[p]>>}
                  ELSE snaps
    /\ apc' = [apc EXCEPT ![p] = "idle"]
    /\ UNCHANGED <<registry, cache, today, numero, anno, nome, esiste,
                   nome_esistente, scelta, def_num, data, folderDoc,
                   folderHist, salvaCount>>

ANext ==
    \/ NewYear
    \/ \E p \in Procs : ElencoPratiche(p)
    \/ \E p \in Procs : SalvaLoadNextId(p)
    \/ \E p \in Procs : SalvaIdExists(p)
    \/ \E p \in Procs : Sovrascrivi(p)
    \/ \E p \in Procs : UsaProssimo(p)
    \/ \E p \in Procs : Annulla(p)
    \/ \E p \in Procs : ProseguiWrite(p)
    \/ \E p \in Procs : PersistRead(p)
    \/ \E p \in Procs : PersistWrite(p)
    \/ \E p \in Procs : ProseguiDualSave(p)

\* ========================================================================
\* Part B - canonical document store of one practice folder
\*          (repo.py, salva_tutto.py, history.py)
\* ========================================================================
VARIABLES
    now,        \* wall clock, seconds
    lockf,      \* lock files: pratica.json.lock (repo), pratica.lock (ui)
    ino,        \* contents of the inodes of the practice folder
    canon,      \* inode behind pratica.json (0: no such file)
    tmp,        \* inode behind pratica.json.tmp (0: no such file)
    history,    \* lines of history.jsonl
    wpc,        \* per writer: position inside the save
    kind,       \* per writer: entry point of the save
    inp,        \* per writer: document passed by the caller
    after,      \* per writer: _save_dict.after / salva_pratica.record
    before,     \* per writer: result of _read_existing
    fd,         \* per writer: inode of the open temp file (0: none)
    start,      \* per writer: _lock.start
    result,     \* per writer: outcome of the last save
    loaded,     \* outcome of a load_pratica call that has just returned
    prev,       \* kind and input of the save that returned last
    repeat,     \* per writer: this save repeats prev with nobody in between
    saves,      \* saves started so far
    crashes     \* writers killed so far

bvars == <<now, lockf, ino, canon, tmp, history, wpc, kind, inp, after,
           before, fd, start, result, loaded, prev, repeat, saves, crashes>>

\* updated_at is either supplied by the caller or taken from the clock
CallerTs == [src |-> "caller", t |-> 0]
ClockTs(t) == [src |-> "clock", t |-> t]
NoTs == [src |-> "absent", t |-> 0]

\* None / no document
NullDoc == [payload |-> "none", updated_at |-> NoTs]
Inputs == [payload : Payloads, updated_at : {CallerTs, NoTs}]

\* what the caller passes: write_pratica takes any dict; salva_pratica takes
\* the UI state (_build_record sets updated_at itself); save_pratica takes a
\* Pratica instance (no updated_at attribute in models.py)
InputsOf(k) ==
    IF k = "write_pratica" THEN Inputs
    ELSE {i \in Inputs : i.updated_at = NoTs}

\* file contents: bytes is "none" (no inode), "partial" (opened with "w",
\* text not yet written) or "full" (json.dumps(doc, indent=2))
NoFile == [bytes |-> "none", doc |-> NullDoc]
Partial == [bytes |-> "partial", doc |-> NullDoc]
Full(d) == [bytes |-> "full", doc |-> d]

\* lock file name: repo._lock appends ".lock" to "pratica.json",
\* salva_tutto._lock replaces the suffix ".json" by ".lock"
LockPaths == {"pratica.json.lock", "pratica.lock"}
LockPath(k) == IF k = "salva_pratica" THEN "pratica.lock"
               ELSE "pratica.json.lock"
NoPrev == [kind |-> "none", inp |-> NullDoc]
NoLock == [exists |-> FALSE, mtime |-> 0, owner |-> "none"]

\* repo._canonical_json: compact text with sorted keys, "null" for None
canonical_json(d) ==
    IF d = NullDoc THEN <<"null", NoTs>> ELSE <<d.payload, d.updated_at>>

\* history._sha256_text(_pretty(obj))
NoHash == <<"None", NoTs>>
sha256_pretty(d) == <<d.payload, d.updated_at>>

\* repo._read_existing / salva_tutto._read_existing
read_existing(c, inodes) ==
    IF c = 0 THEN NullDoc
    ELSE IF inodes[c].bytes = "full" THEN inodes[c].doc
    ELSE NullDoc

\* repo.load_pratica, with the Pratica class of models.py (three fields)
load_pratica(c, inodes) ==
    IF c = 0 THEN "FileNotFoundError"
    ELSE IF inodes[c].bytes # "full" THEN "ValueError"
    ELSE "TypeError"

\* write_pratica: data.setdefault("updated_at", _now_iso());
\* salva_pratica: _build_record always sets updated_at from the clock
default_updated_at(k, i, t) ==
    IF k = "salva_pratica" \/ i.updated_at = NoTs
    THEN [payload |-> i.payload, updated_at |-> ClockTs(t)]
    ELSE i

\* _save_dict: "if before_canon == after_canon: return p"
\* (salva_pratica has no such test)
unchanged_skip(k, b, a) ==
    /\ k # "salva_pratica"
    /\ b # NullDoc
    /\ canonical_json(b) = canonical_json(a)

\* history.append_history
history_row(b, a) ==
    [before_hash |-> IF b = NullDoc THEN NoHash ELSE sha256_pretty(b),
     after_hash |-> sha256_pretty(a)]

\* an inode lives as long as a directory entry or an open file refers to it
Collect(inodes, c, t, fds) ==
    [i \in InodeIds |->
        IF i = c \/ i = t \/ (\E w \in Writers : fds[w] = i)
        THEN inodes[i] ELSE NoFile]

FreeIno(inodes) ==
    CHOOSE i \in InodeIds :
        /\ inodes[i].bytes = "none"
        /\ \A j \in InodeIds : inodes[j].bytes = "none" => i <= j

\* the practice folder as the program finds it: c = 0, no pratica.json
\* yet; c = 1, a pratica.json whose bytes do not parse
FolderInit(c) ==
    /\ now = 0
    /\ lockf = [l \in LockPaths |-> NoLock]
    /\ ino = [i \in InodeIds |-> IF i = c THEN Partial ELSE NoFile]
    /\ canon = c
    /\ tmp = 0
    /\ history = <<>>
    /\ wpc = [w \in Writers |-> "idle"]
    /\ kind = [w \in Writers |-> "write_pratica"]
    /\ inp = [w \in Writers |-> NullDoc]
    /\ after = [w \in Writers |-> NullDoc]
    /\ before = [w \in Writers |-> NullDoc]
    /\ fd = [w \in Writers |-> 0]
    /\ start = [w \in Writers |-> 0]
    /\ result = [w \in Writers |-> "none"]
    /\ loaded = "none"
    /\ prev = NoPrev
    /\ repeat = [w \in Writers |-> FALSE]
    /\ saves = 0
    /\ crashes = 0

BInit == FolderInit(0)

\* a folder whose pratica.json was left truncated (the state that
\* C4_NeverPartial shows the save paths can leave behind) or damaged by hand
BInitUnparsable == FolderInit(1)

Tick ==
    /\ now + TickStep <= MaxTime
    /\ now' = now + TickStep
    /\ UNCHANGED <<lockf, ino, canon, tmp, history, wpc, kind, inp, after,
                   before, fd, start, result, prev, repeat, saves,
                   crashes>>

\* write_pratica / save_pratica / salva_pratica up to the entry of _lock
StartSave(w) ==
    /\ wpc[w] = "idle"
    /\ saves < MaxSaves
    /\ \E k \in Kinds : \E i \in InputsOf(k) :
        /\ kind' = [kind EXCEPT ![w] = k]
        /\ inp' = [inp EXCEPT ![w] = i]
        /\ after' = [after EXCEPT ![w] = default_updated_at(k, i, now)]
        /\ repeat' = [v \in Writers |->
                        IF v = w
                        THEN /\ prev = [kind |-> k, inp |-> i]
                             /\ \A u \in Writers : wpc[u] \in {"idle", "crashed"}
                        ELSE FALSE]
    /\ start' = [start EXCEPT ![w] = now]
    /\ UNCHANGED <<before, result>>
    /\ wpc' = [wpc EXCEPT ![w] = "lock_loop"]
    /\ saves' = saves + 1
    /\ prev' = NoPrev
    /\ UNCHANGED <<now, lockf, ino, canon, tmp, history, fd, crashes>>

\* _lock as it would be without the staleness test: a turn of the loop
\* either finds no lock file, or times out, or sleeps
LockLoopNoStale(w) ==
    /\ wpc[w] = "lock_loop"
    /\ LET l == LockPath(kind[w])
       IN IF ~lockf[l].exists
          THEN /\ wpc' = [wpc EXCEPT ![w] = "lock_write"]
               /\ UNCHANGED <<lockf, prev, repeat, kind, inp, after, start>>
          ELSE IF now - start[w] > Timeout
          THEN /\ wpc' = [wpc EXCEPT ![w] = "idle"]
               /\ kind' = [kind EXCEPT ![w] = "write_pratica"]
               /\ inp' = [inp EXCEPT ![w] = NullDoc]
               /\ after' = [after EXCEPT ![w] = NullDoc]
               /\ start' = [start EXCEPT ![w] = 0]
               /\ prev' = NoPrev
               /\ repeat' = [repeat EXCEPT ![w] = FALSE]
               /\ UNCHANGED lockf
          ELSE /\ FALSE
               /\ UNCHANGED <<wpc, lockf, prev, repeat, kind, inp, after,
                              start>>
    /\ UNCHANGED <<now, ino, canon, tmp, history, before, fd, result,
                   saves, crashes>>

\* _lock, one turn of "while lock.exists():" - leave the loop if there is
\* no lock file; remove a stale one and leave; raise TimeoutError after
\* the bounded wait; otherwise sleep and look again
LockLoop(w) ==
    /\ wpc[w] = "lock_loop"
    /\ LET l == LockPath(kind[w])
       IN IF ~lockf[l].exists
          THEN /\ wpc' = [wpc EXCEPT ![w] = "lock_write"]
               /\ UNCHANGED <<lockf, prev, repeat, kind, inp, after, start>>
          ELSE IF now - lockf[l].mtime > Stale
          THEN /\ lockf' = [lockf EXCEPT ![l] = NoLock]
               /\ wpc' = [wpc EXCEPT ![w] = "lock_write"]
               /\ UNCHANGED <<prev, repeat, kind, inp, after, start>>
          ELSE IF now - start[w] > Timeout
          THEN /\ wpc' = [wpc EXCEPT ![w] = "idle"]
               /\ kind' = [kind EXCEPT ![w] = "write_pratica"]
               /\ inp' = [inp EXCEPT ![w] = NullDoc]
               /\ after' = [after EXCEPT ![w] = NullDoc]
               /\ start' = [start EXCEPT ![w] = 0]
               /\ prev' = NoPrev
               /\ repeat' = [repeat EXCEPT ![w] = FALSE]
               /\ UNCHANGED lockf
          ELSE /\ FALSE
               /\ UNCHANGED <<wpc, lockf, prev, repeat, kind, inp, after,
                              start>>
    /\ UNCHANGED <<now, ino, canon, tmp, history, before, fd, result,
                   saves, crashes>>

\* _lock: lock.write_text(f"{os.getpid()} @ {time.time()}")
LockWrite(w) ==
    /\ wpc[w] = "lock_write"
    /\ lockf' = [lockf EXCEPT ![LockPath(kind[w])] =
                   [exists |-> TRUE, mtime |-> now, owner |-> w]]
    /\ wpc' = [wpc EXCEPT ![w] = "read"]
    /\ UNCHANGED <<now, ino, canon, tmp, history, kind, inp, after, before,
                   fd, start, result, prev, repeat, saves, crashes>>

\* inside the lock: before = _read_existing(p); then
\*   save_pratica: dict(after) raises, the Pratica of models.py serialises
\*                 to a string;
\*   write_pratica: compare the canonical texts, return if equal;
\*   salva_pratica: always goes on to write
ReadExisting(w) ==
    /\ wpc[w] = "read"
    /\ LET b == read_existing(canon, ino)
       IN /\ before' = [before EXCEPT ![w] = b]
          /\ IF kind[w] = "save_pratica"
             THEN /\ wpc' = [wpc EXCEPT ![w] = "unlock"]
                  /\ result' = [result EXCEPT ![w] = "ValueError"]
             ELSE IF unchanged_skip(kind[w], b, after[w])
             THEN /\ wpc' = [wpc EXCEPT ![w] = "unlock"]
                  /\ result' = [result EXCEPT ![w] = "unchanged"]
             ELSE /\ wpc' = [wpc EXCEPT ![w] = "tmp_open"]
                  /\ UNCHANGED result
    /\ UNCHANGED <<now, lockf, ino, canon, tmp, history, kind, inp, after,
                   fd, start, prev, repeat, saves, crashes>>

\* _atomic_write_text: open(tmp, "w") creates or truncates pratica.json.tmp
TmpOpen(w) ==
    /\ wpc[w] = "tmp_open"
    /\ LET i == IF tmp = 0 THEN FreeIno(ino) ELSE tmp
       IN /\ ino' = [ino EXCEPT ![i] = Partial]
          /\ tmp' = i
          /\ fd' = [fd EXCEPT ![w] = i]
    /\ wpc' = [wpc EXCEPT ![w] = "tmp_write"]
    /\ UNCHANGED <<now, lockf, canon, history, kind, inp, after, before,
                   start, result, prev, repeat, saves, crashes>>

\* _atomic_write_text: f.write(text), flush, fsync, close
TmpWrite(w) ==
    /\ wpc[w] = "tmp_write"
    /\ LET fds == [fd EXCEPT ![w] = 0]
       IN /\ fd' = fds
          /\ ino' = Collect([ino EXCEPT ![fd[w]] = Full(after[w])],
                            canon, tmp, fds)
    /\ wpc' = [wpc EXCEPT ![w] = "replace"]
    /\ UNCHANGED <<now, lockf, canon, tmp, history, kind, inp, after,
                   before, start, result, prev, repeat, saves,
                   crashes>>

\* _atomic_write_text: os.replace(tmp, path); FileNotFoundError if the
\* temp file has been renamed away by somebody else
Replace(w) ==
    /\ wpc[w] = "replace"
    /\ IF tmp = 0
       THEN /\ wpc' = [wpc EXCEPT ![w] = "unlock"]
            /\ result' = [result EXCEPT ![w] = "FileNotFoundError"]
            /\ UNCHANGED <<ino, canon, tmp>>
       ELSE /\ canon' = tmp
            /\ tmp' = 0
            /\ ino' = Collect(ino, tmp, 0, fd)
            /\ wpc' = [wpc EXCEPT ![w] = "history"]
            /\ UNCHANGED result
    /\ UNCHANGED <<now, lockf, history, kind, inp, after, before, fd, start,
                   prev, repeat, saves, crashes>>

\* append_history(folder, actor, "save_pratica", before, after)
AppendHistory(w) ==
    /\ wpc[w] = "history"
    /\ history' = Append(history, history_row(before[w], after[w]))
    /\ result' = [result EXCEPT ![w] = "written"]
    /\ wpc' = [wpc EXCEPT ![w] = "unlock"]
    /\ UNCHANGED <<now, lockf, ino, canon, tmp, kind, inp, after, before,
                   fd, start, prev, repeat, saves, crashes>>

\* _lock, finally: lock.unlink(), errors ignored; the save returns or raises
Unlock(w) ==
    /\ wpc[w] = "unlock"
    /\ lockf' = [lockf EXCEPT ![LockPath(kind[w])] = NoLock]
    /\ wpc' = [wpc EXCEPT ![w] = "idle"]
    /\ prev' = IF /\ result[w] \in {"written", "unchanged"}
                  /\ \A u \in Writers \ {w} : wpc[u] \in {"idle", "crashed"}
               THEN [kind |-> kind[w], inp |-> inp[w]]
               ELSE NoPrev
    /\ repeat' = [repeat EXCEPT ![w] = FALSE]
    /\ kind' = [kind EXCEPT ![w] = "write_pratica"]
    /\ inp' = [inp EXCEPT ![w] = NullDoc]
    /\ after' = [after EXCEPT ![w] = NullDoc]
    /\ before' = [before EXCEPT ![w] = NullDoc]
    /\ start' = [start EXCEPT ![w] = 0]
    /\ result' = [result EXCEPT ![w] = "none"]
    /\ UNCHANGED <<now, ino, canon, tmp, history, fd, saves,
                   crashes>>

\* the process of a writer is killed in mid-save: its open file is closed,
\* lock file and temp file stay behind
Crash(w) ==
    /\ wpc[w] \notin {"idle", "crashed"}
    /\ crashes < MaxCrashes
    /\ crashes' = crashes + 1
    /\ wpc' = [wpc EXCEPT ![w] = "crashed"]
    /\ result' = [result EXCEPT ![w] = "none"]
    /\ kind' = [kind EXCEPT ![w] = "write_pratica"]
    /\ inp' = [inp EXCEPT ![w] = NullDoc]
    /\ after' = [after EXCEPT ![w] = NullDoc]
    /\ before' = [before EXCEPT ![w] = NullDoc]
    /\ start' = [start EXCEPT ![w] = 0]
    /\ LET fds == [fd EXCEPT ![w] = 0]
       IN /\ fd' = fds
          /\ ino' = Collect(ino, canon, tmp, fds)
    /\ prev' = NoPrev
    /\ repeat' = [repeat EXCEPT ![w] = FALSE]
    /\ UNCHANGED <<now, lockf, canon, tmp, history, saves>>

\* a reader calls load_pratica(folder) at any moment, without the lock
LoadPratica ==
    /\ loaded = "none"
    /\ loaded' = load_pratica(canon, ino)
    /\ UNCHANGED <<now, lockf, ino, canon, tmp, history, wpc, kind, inp,
                   after, before, fd, start, result, prev, repeat, saves,
                   crashes>>

SaveStep ==
    \/ Tick
    \/ \E w \in Writers : StartSave(w)
    \/ \E w \in Writers : LockLoop(w)
    \/ \E w \in Writers : LockWrite(w)
    \/ \E w \in Writers : ReadExisting(w)
    \/ \E w \in Writers : TmpOpen(w)
    \/ \E w \in Writers : TmpWrite(w)
    \/ \E w \in Writers : Replace(w)
    \/ \E w \in Writers : AppendHistory(w)
    \/ \E w \in Writers : Unlock(w)
    \/ \E w \in Writers : Crash(w)

BNext ==
    \/ LoadPratica
    \/ (loaded' = "none" /\ SaveStep)

\* ========================================================================
\* Part C - relational mirror (SQLite): upsert of a practice aggregate
\* ========================================================================
\* The sources hold two drafts of upsert_pratica: repo_sqlite.py, the
\* module that "import repo_sqlite" loads, and repo_sqlite.user_original.py,
\* whose signature is the one dual_save, storage_utils and the tests call.
\* db_schema.sql is not among the sources: the tables are taken to have the
\* columns each draft writes, the id columns of tools/fix_schema.py and the
\* unique index of db_migrations.ensure_columns.
VARIABLES
    draft,          \* which draft is installed as module repo_sqlite
    pratiche,       \* parent table: one row per id_pratica
    child,          \* the five child tables, each a set of rows
    seq,            \* sqlite_sequence: last rowid handed out per table
    uuids,          \* uuid4 values drawn so far, per table
    lastCall,       \* the last call of upsert_pratica and its outcome
    calls           \* calls of upsert_pratica made so far

mvars == <<draft, pratiche, child, seq, uuids, lastCall, calls>>

Drafts == {"repo_sqlite.py", "repo_sqlite.user_original.py"}
Styles == {"positional", "keyword"}
PIDs == {"1/2025", "2/2025"}
Tables == {"pratica_avvocati", "pratica_tariffe", "attivita", "scadenze",
           "documenti"}
\* tables with a column id INTEGER PRIMARY KEY AUTOINCREMENT; in the other
\* two the field id of a row stands for the hidden rowid
SerialTables == {"attivita", "scadenze", "documenti"}

\* stable row identifiers
Ui(n) == [src |-> "ui", n |-> n, v |-> "-"]            \* sent by the caller
NoUid == [src |-> "absent", n |-> 0, v |-> "-"]        \* item has no 'uid'
NullUid == [src |-> "NULL", n |-> 0, v |-> "-"]        \* column left NULL
Uuid4(k) == [src |-> "uuid4", n |-> k, v |-> "-"]      \* uuid.uuid4().hex
EmailRuolo(val) == [src |-> "email|ruolo", n |-> 0, v |-> val]

NullPos == 0 - 1
NullTime == 0 - 1

Items == {[uid |-> Ui(1), val |-> "a"], [uid |-> Ui(1), val |-> "b"],
          [uid |-> Ui(2), val |-> "a"], [uid |-> NoUid, val |-> "a"]}
RowLists == UNION {[1..n -> Items] : n \in 0..MaxRows}

NoRow == [exists |-> FALSE, updated_at |-> NullTime,
          raw_json |-> [null |-> TRUE, rows |-> <<>>]]
NoCall == [pid |-> "none", rows |-> <<>>, style |-> "none", res |-> "none"]

RowsOf(tab, pid) == {r \in tab : r.id_pratica = pid}

\* _ensure_uid: the item's uid, or a new uuid4 when it has none
ensure_uid(item, uu) == IF item.uid # NoUid THEN item.uid ELSE Uuid4(uu + 1)

\* merge_children on one table; st carries the table, its rowid and uuid
\* counters, the uids met so far and whether an INSERT hit the unique
\* index uq_<table>_uid
RECURSIVE merge_loop(_, _, _, _, _)
merge_loop(pid, rows, i, existing, st) ==
    IF i > Len(rows) \/ st.err THEN st
    ELSE LET item == rows[i]
             uid == ensure_uid(item, st.uuids)
             st1 == [st EXCEPT !.uuids = IF item.uid = NoUid THEN @ + 1
                                         ELSE @,
                               !.incoming = @ \cup {uid}]
         IN  IF uid \in existing
             THEN merge_loop(pid, rows, i + 1, existing,
                    [st1 EXCEPT !.tab =
                        {IF r.id_pratica = pid /\ r.uid = uid
                         THEN [r EXCEPT !.pos = i - 1, !.val = item.val]
                         ELSE r : r \in @}])
             ELSE IF \E r \in st1.tab : r.uid = uid
             THEN [st1 EXCEPT !.err = TRUE]
             ELSE merge_loop(pid, rows, i + 1, existing,
                    [st1 EXCEPT !.seq = @ + 1,
                                !.tab = @ \cup
                                    {[id_pratica |-> pid, uid |-> uid,
                                      pos |-> i - 1, val |-> item.val,
                                      id |-> st1.seq + 1]}])

merge_children(pid, rows, st) ==
    LET existing == {r.uid : r \in RowsOf(st.tab, pid)}
        done == merge_loop(pid, rows, 1, existing, st)
        to_delete == existing \ done.incoming
    IN  IF done.err THEN done
        ELSE [done EXCEPT !.tab =
                {r \in @ : ~(r.id_pratica = pid /\ r.uid \in to_delete
                             /\ r.uid # NullUid)}]

\* the avvocati branch without any 'uid': delete all, insert again with the
\* uid made of email and role
RECURSIVE insert_avvocati(_, _, _, _)
insert_avvocati(pid, rows, i, st) ==
    IF i > Len(rows) \/ st.err THEN st
    ELSE LET uid == IF rows[i].uid # NoUid THEN rows[i].uid
                    ELSE EmailRuolo(rows[i].val)
         IN  IF \E r \in st.tab : r.uid = uid
             THEN [st EXCEPT !.err = TRUE]
             ELSE insert_avvocati(pid, rows, i + 1,
                    [st EXCEPT !.seq = @ + 1,
                               !.tab = @ \cup
                                   {[id_pratica |-> pid, uid |-> uid,
                                     pos |-> i - 1, val |-> rows[i].val,
                                     id |-> st.seq + 1]}])

merge_avvocati(pid, rows, st) ==
    IF rows # <<>> /\ \E i \in 1..Len(rows) : rows[i].uid # NoUid
    THEN merge_children(pid, rows, st)
    ELSE insert_avvocati(pid, rows, 1,
            [st EXCEPT !.tab = @ \ RowsOf(@, pid)])

TableState(t) == [tab |-> child[t], seq |-> seq[t], uuids |-> uuids[t],
                  incoming |-> {}, err |-> FALSE]

\* repo_sqlite.user_original.upsert_pratica, table by table
Merged(t, pid, rows) ==
    IF t = "pratica_avvocati" THEN merge_avvocati(pid, rows, TableState(t))
    ELSE merge_children(pid, rows, TableState(t))

\* repo_sqlite.upsert_pratica, table by table: DELETE the practice's rows,
\* INSERT the incoming ones; neither uid nor pos is written
Replaced(t, pid, rows) ==
    [TableState(t) EXCEPT
        !.seq = @ + Len(rows),
        !.tab = (@ \ RowsOf(@, pid)) \cup
                {[id_pratica |-> pid, uid |-> NullUid, pos |-> NullPos,
                  val |-> rows[i].val, id |-> seq[t] + i]
                 : i \in 1..Len(rows)}]

MInit ==
    /\ draft \in Drafts
    /\ pratiche = [p \in PIDs |-> NoRow]
    /\ child = [t \in Tables |-> {}]
    /\ seq = [t \in Tables |-> 0]
    /\ uuids = [t \in Tables |-> 0]
    /\ lastCall = NoCall
    /\ calls = 0

\* upsert_pratica(pratica, conn=con) of repo_sqlite.py
upsert_pratica(pid, rows) ==
    LET R(t) == Replaced(t, pid, rows)
    IN  /\ draft = "repo_sqlite.py"
        /\ calls < MaxCalls
        /\ calls' = calls + 1
        /\ pratiche' = [pratiche EXCEPT ![pid] =
                          [exists |-> TRUE, updated_at |-> NullTime,
                           raw_json |-> [null |-> TRUE, rows |-> <<>>]]]
        /\ child' = [t \in Tables |-> R(t).tab]
        /\ seq' = [t \in Tables |-> R(t).seq]
        /\ lastCall' = [pid |-> pid, rows |-> rows, style |-> "keyword",
                        res |-> "ok"]
        /\ UNCHANGED <<draft, uuids>>

\* upsert_pratica(con, pratica) of repo_sqlite.user_original.py
upsert_pratica_user_original(pid, rows) ==
    LET R(t) == Merged(t, pid, rows)
        failed == \E t \in Tables : R(t).err
    IN  /\ draft = "repo_sqlite.user_original.py"
        /\ calls < MaxCalls
        /\ calls' = calls + 1
        /\ IF failed
           THEN \* atomic_tx: ROLLBACK and re-raise
                /\ lastCall' = [pid |-> pid, rows |-> rows,
                                style |-> "positional",
                                res |-> "IntegrityError"]
                /\ UNCHANGED <<pratiche, child, seq, uuids>>
           ELSE /\ pratiche' = [pratiche EXCEPT ![pid] =
                          [exists |-> TRUE, updated_at |-> now,
                           raw_json |-> [null |-> FALSE, rows |-> rows]]]
                /\ child' = [t \in Tables |-> R(t).tab]
                /\ seq' = [t \in Tables |-> R(t).seq]
                /\ uuids' = [t \in Tables |-> R(t).uuids]
                /\ lastCall' = [pid |-> pid, rows |-> rows,
                                style |-> "positional", res |-> "ok"]
        /\ UNCHANGED draft

\* a call in the style the installed draft does not accept: Python raises
\* TypeError before the function body runs
upsert_pratica_TypeError(pid, rows) ==
    /\ calls < MaxCalls
    /\ calls' = calls + 1
    /\ lastCall' = [pid |-> pid, rows |-> rows,
                    style |-> IF draft = "repo_sqlite.py" THEN "positional"
                              ELSE "keyword",
                    res |-> "TypeError"]
    /\ UNCHANGED <<draft, pratiche, child, seq, uuids>>

\* datetime('now') of the database advances
MirrorTick ==
    /\ Tick
    /\ UNCHANGED <<loaded, mvars>>

MNext ==
    \/ MirrorTick
    \/ \E pid \in PIDs, rows \in RowLists :
          /\ \/ upsert_pratica(pid, rows)
             \/ upsert_pratica_user_original(pid, rows)
             \/ upsert_pratica_TypeError(pid, rows)
          /\ UNCHANGED bvars

\* ========================================================================
\* Part D - the save pipelines around the mirror and the snapshot copies
\*          (dual_save.py, storage_utils.py, salva_tutto.py, paths.py)
\* ========================================================================
\* db_core.connect and db_core.transaction, which dual_save imports, are
\* not among the sources: they are taken to open the database and to wrap
\* the upsert without failing by themselves.
VARIABLES
    fs,         \* files written by the pipelines: path, writing save, data
    ret         \* outcome of the last pipeline call

dvars == <<fs, ret>>

SavePid == "1/2025"
i1 == [uid |-> Ui(1), val |-> "a"]
SaveRows == {<<>>, <<i1>>}

\* file kinds: the canonical copy, the fixed-name ("latest") copies and
\* the timestamped copies named <id>_gp_<DDMMYYYY>_<HHMMSS>.<ext>
StaticKinds == {"json_primary", "app_json_static", "app_sql_static"}
StampedKinds == {"user_json_ts", "user_sql_ts", "data_json_ts",
                 "data_sql_ts"}

\* paths.build_static_name / paths.build_timestamp_name: the name depends
\* on the identifier and, for a timestamped copy, on the clock second
PathOf(k, pid, t) ==
    [kind |-> k, pid |-> pid,
     ts |-> IF k \in StampedKinds THEN t ELSE NullTime]

\* _atomic_write: the file at path now holds what save n wrote
WriteFile(f, path, n, rows) ==
    {x \in f : x.path # path} \cup {[path |-> path, by |-> n, data |-> rows]}

RECURSIVE WriteAll(_, _, _, _, _, _)
WriteAll(f, kinds, pid, t, n, rows) ==
    IF kinds = <<>> THEN f
    ELSE WriteAll(WriteFile(f, PathOf(Head(kinds), pid, t), n, rows),
                  Tail(kinds), pid, t, n, rows)

NoRet == [fn |-> "none", status |-> "none", error |-> "none",
          warned |-> FALSE, failed |-> "none", paths |-> {}]

DInit ==
    /\ fs = {}
    /\ ret = NoRet

\* repo_sqlite.upsert_pratica(conn, data), the positional call
upsert_positional(pid, rows) ==
    \/ upsert_pratica_user_original(pid, rows)
    \/ (draft = "repo_sqlite.py" /\ upsert_pratica_TypeError(pid, rows))

\* step 3 of save_all, in the order of the code
SecondaryFiles == <<"app_json_static", "app_sql_static", "user_json_ts",
                    "user_sql_ts">>
SaveAllFaults == {"none", "json_primary", "app_json_static",
                  "app_sql_static", "user_json_ts", "user_sql_ts"}

\* the secondary files written before the one whose write raises
RECURSIVE Before(_, _)
Before(kinds, fault) ==
    IF kinds = <<>> \/ Head(kinds) = fault THEN <<>>
    ELSE <<Head(kinds)>> \o Before(Tail(kinds), fault)

SaveAllPaths(pid, t) ==
    {PathOf(k, pid, t) : k \in {"json_primary", "app_json_static",
                                "app_sql_static", "user_json_ts",
                                "user_sql_ts"}}

\* dual_save.save_all(data); via = "save_all" for a direct call, or the
\* caller that wraps dual_save(...) in try/except.  fault names the file
\* whose write raises OSError in this call ("none": every write succeeds)
SaveAllVia(via, pid, rows, fault) ==
    LET n == calls + 1
        f1 == WriteFile(fs, PathOf("json_primary", pid, now), n, rows)
        caught == via # "save_all"
    IN  IF fault = "json_primary"
        THEN /\ ret' = [fn |-> via,
                        status |-> IF caught THEN "returned" ELSE "raised",
                        error |-> "OSError", warned |-> caught,
                        failed |-> "json_primary", paths |-> {}]
             /\ UNCHANGED <<fs, mvars>>
        ELSE /\ upsert_positional(pid, rows)
             /\ IF lastCall'.res # "ok"
                THEN /\ fault = "none"
                     /\ fs' = f1
                     /\ ret' = [fn |-> via,
                                status |-> IF caught THEN "returned"
                                           ELSE "raised",
                                error |-> lastCall'.res, warned |-> caught,
                                failed |-> "upsert", paths |-> {}]
                ELSE /\ fs' = WriteAll(f1, Before(SecondaryFiles, fault),
                                       pid, now, n, rows)
                     /\ ret' = [fn |-> via, status |-> "returned",
                                error |-> "none", warned |-> FALSE,
                                failed |-> fault,
                                paths |-> IF caught THEN {}
                                          ELSE SaveAllPaths(pid, now)]

save_all(pid, rows, fault) == SaveAllVia("save_all", pid, rows, fault)

\* salva_tutto.salva_pratica after the locked section: dual_save in
\* try/except, a failure becomes the notification 'Dual-save non riuscito'
salva_pratica_dual_save(pid, rows, fault) ==
    SaveAllVia("salva_pratica", pid, rows, fault)

StorageFaults == {"none", "app_json_static", "json_primary",
                  "user_json_ts", "data_json_ts", "app_sql_static",
                  "user_sql_ts", "data_sql_ts"}
StorageFatal == {"app_json_static", "json_primary", "app_sql_static"}
StorageJson == <<"app_json_static", "json_primary", "user_json_ts",
                 "data_json_ts">>
StorageSql == <<"app_sql_static", "user_sql_ts", "data_sql_ts">>

\* the files of kinds that this call writes: all but the faulty one and,
\* when the fault is fatal, those that would have come after it
RECURSIVE Surviving(_, _)
Surviving(kinds, fault) ==
    IF kinds = <<>> THEN <<>>
    ELSE IF Head(kinds) = fault
         THEN IF fault \in StorageFatal THEN <<>>
              ELSE Surviving(Tail(kinds), fault)
         ELSE <<Head(kinds)>> \o Surviving(Tail(kinds), fault)

StoragePaths(pid, t) ==
    {PathOf(k, pid, t) : k \in StaticKinds \cup StampedKinds}

\* storage_utils.save_pratica(pratica)
save_pratica_storage_utils(pid, rows, fault) ==
    LET n == calls + 1
        f1 == WriteAll(fs, Surviving(StorageJson, fault), pid, now, n, rows)
    IN  IF fault \in {"app_json_static", "json_primary"}
        THEN /\ fs' = f1
             /\ ret' = [fn |-> "storage_utils.save_pratica",
                        status |-> "raised", error |-> "OSError",
                        warned |-> FALSE, failed |-> fault, paths |-> {}]
             /\ UNCHANGED mvars
        ELSE /\ upsert_positional(pid, rows)
             /\ fs' = WriteAll(f1, Surviving(StorageSql, fault), pid, now,
                               n, rows)
             /\ ret' = IF fault = "app_sql_static"
                       THEN [fn |-> "storage_utils.save_pratica",
                             status |-> "raised", error |-> "OSError",
                             warned |-> FALSE, failed |-> fault,
                             paths |-> {}]
                       ELSE [fn |-> "storage_utils.save_pratica",
                             status |-> "returned", error |-> "none",
                             warned |-> (lastCall'.res # "ok"
                                         \/ fault # "none"),
                             failed |-> IF fault # "none" THEN fault
                                        ELSE IF lastCall'.res # "ok"
                                        THEN "upsert" ELSE "none",
                             paths |-> StoragePaths(pid, now)]

SaveTick ==
    /\ Tick
    /\ UNCHANGED <<loaded, mvars, dvars>>

DNext ==
    \/ SaveTick
    \/ \E rows \in SaveRows :
          /\ \/ \E fault \in SaveAllFaults :
                   \/ save_all(SavePid, rows, fault)
                   \/ salva_pratica_dual_save(SavePid, rows, fault)
             \/ \E fault \in StorageFaults :
                   save_pratica_storage_utils(SavePid, rows, fault)
          /\ UNCHANGED bvars

\* ========================================================================
\* Part E - retention of the timestamped snapshots (retention.py)
\* ========================================================================
VARIABLES
    backups,    \* the <id>_gp_<ts>.json files of one practice folder
    rres,       \* arguments and RetentionResult of the last call
    others      \* the other files of the practice folder

evars == <<backups, rres, others>>

\* The calendar window of the model starts on Monday 25 August 2025:
\* day 0..6 are 25..31 August (ISO week 35), day 7 is Monday 1 September.
SecondsPerDay == 86400
SecondsPerHour == 3600
MaxBackups == 3
FileSizes == {1000, 2000000}
MegaByte == 1024 * 1024
NoneArg == 0 - 1

StampAt(d, h) == d * SecondsPerDay + h * SecondsPerHour
BackupStamps == {StampAt(0, 11), StampAt(0, 12), StampAt(6, 12),
                 StampAt(7, 12)}

\* _bucket_key_day, _bucket_key_week, _bucket_key_month
DayOf(dt) == dt \div SecondsPerDay
_bucket_key_day(dt) == DayOf(dt)
_bucket_key_week(dt) == 35 + (DayOf(dt) \div 7)
_bucket_key_month(dt) == IF DayOf(dt) <= 6 THEN 8 ELSE 9
bucket_fn(tier, dt) ==
    IF tier = "day" THEN _bucket_key_day(dt)
    ELSE IF tier = "week" THEN _bucket_key_week(dt)
    ELSE _bucket_key_month(dt)

\* the folders the model starts from: up to MaxBackups snapshots, one per
\* timestamp (the name carries the timestamp)
BackupSets ==
    UNION {[S -> FileSizes] : S \in {T \in SUBSET BackupStamps :
                                        Cardinality(T) <= MaxBackups}}
FilesOf(g) == {[t |-> x, size |-> g[x]] : x \in DOMAIN g}

\* items.sort(key=dt, reverse=True)
RECURSIVE SortedDesc(_)
SortedDesc(files) ==
    IF files = {} THEN <<>>
    ELSE LET newest == CHOOSE f \in files : \A g \in files : g.t <= f.t
         IN  <<newest>> \o SortedDesc(files \ {newest})

Prefix(s, n) == SubSeq(s, 1, IF n < Len(s) THEN n ELSE Len(s))
Range(s) == {s[i] : i \in 1..Len(s)}

RECURSIVE select_loop(_, _, _, _, _, _)
select_loop(items, tier, limit, already_kept, chosen, seen) ==
    IF items = <<>> \/ Cardinality(chosen) >= limit THEN chosen
    ELSE LET p == Head(items)
             b == bucket_fn(tier, p.t)
         IN  IF p \in already_kept \/ b \in seen
             THEN select_loop(Tail(items), tier, limit, already_kept,
                              chosen, seen)
             ELSE select_loop(Tail(items), tier, limit, already_kept,
                              chosen \cup {p}, seen \cup {b})

_select_newest_per_bucket(items, tier, limit, already_kept) ==
    IF limit = NoneArg \/ limit <= 0 THEN {}
    ELSE select_loop(items, tier, limit, already_kept, {}, {})

RECURSIVE SumSizes(_)
SumSizes(s) == IF s = <<>> THEN 0 ELSE Head(s).size + SumSizes(Tail(s))

\* for p in reversed(kept_sorted): drop the oldest kept until under the cap
RECURSIVE evict_loop(_, _, _, _)
evict_loop(rev, keep_set, current, limit_bytes) ==
    IF rev = <<>> \/ current <= limit_bytes THEN keep_set
    ELSE evict_loop(Tail(rev), keep_set \ {Head(rev)},
                    current - Head(rev).size, limit_bytes)

Reverse(s) == [i \in 1..Len(s) |-> s[Len(s) + 1 - i]]

size_cap(items, keep_set, max_megabytes) ==
    IF max_megabytes # NoneArg /\ max_megabytes > 0
    THEN LET kept_sorted == SelectSeq(items, LAMBDA x : x \in keep_set)
         IN  evict_loop(Reverse(kept_sorted), keep_set,
                        SumSizes(kept_sorted), max_megabytes * MegaByte)
    ELSE keep_set

Policies ==
    [strategy : {"simple", "tiered"}, keep_last : 0..1,
     keep_days : {NoneArg, 1}, keep_weeks : {NoneArg, 1},
     keep_months : {NoneArg, 1}, max_megabytes : {NoneArg, 1},
     dry_run : BOOLEAN]

\* the keep_set of enforce_retention_for_practice; clock is datetime.now()
keep_set_of(files, pol, clock) ==
    LET items == SortedDesc(files)
        k0 == Range(Prefix(items, pol.keep_last))
    IN  IF pol.strategy = "simple"
        THEN LET k1 == IF pol.keep_days # NoneArg /\ pol.keep_days >= 0
                       THEN k0 \cup {f \in files : f.t >= clock
                                       - pol.keep_days * SecondsPerDay}
                       ELSE k0
             IN  size_cap(items, k1, pol.max_megabytes)
        ELSE LET k1 == k0 \cup _select_newest_per_bucket(items, "day",
                                                     pol.keep_days, k0)
                 k2 == k1 \cup _select_newest_per_bucket(items, "week",
                                                     pol.keep_weeks, k1)
                 k3 == k2 \cup _select_newest_per_bucket(items, "month",
                                                     pol.keep_months, k2)
             IN  size_cap(items, k3, pol.max_megabytes)

to_delete(files, pol, clock) ==
    SelectSeq(SortedDesc(files),
              LAMBDA x : x \notin keep_set_of(files, pol, clock))

NoPolicy ==
    [strategy |-> "none", keep_last |-> 0, keep_days |-> NoneArg,
     keep_weeks |-> NoneArg, keep_months |-> NoneArg,
     max_megabytes |-> NoneArg, dry_run |-> FALSE]
NoResult ==
    [policy |-> NoPolicy, kept |-> 0, deleted |-> 0, bytes_freed |-> 0,
     deleted_files |-> <<>>]

\* a file name by its parts, <stem><sep><dt>.<ext>
FileName(stem, sep, dt, ext) ==
    [stem |-> stem, sep |-> sep, dt |-> dt, ext |-> ext]

\* <id>_gp_<DDMMYYYY>_<HHMMSS>.json, the name of every file of backups
SnapshotName == FileName("1_2025", "_gp_", "digits8_digits6", "json")

\* pratica.json, history.jsonl, the fixed-name copy <id>_gp.json, the
\* timestamped replay script and a file that only the glob matches
OtherNames ==
    {FileName("pratica", "", "", "json"),
     FileName("history", "", "", "jsonl"),
     FileName("1_2025", "_gp", "", "json"),
     FileName("1_2025", "_gp_", "digits8_digits6", "sql"),
     FileName("1_2025", "_gp_", "bozza", "json")}
OtherFiles == {[name |-> n, t |-> StampAt(0, 11), size |-> 1000]
               : n \in OtherNames}

\* practice_dir.glob('*_gp_*.json')
glob_gp_json(n) == n.sep = "_gp_" /\ n.ext = "json"

\* TIMESTAMP_RE.match(p.name)
TIMESTAMP_RE(n) ==
    /\ n.stem # ""
    /\ n.sep = "_gp_"
    /\ n.dt = "digits8_digits6"
    /\ n.ext = "json"

\* the files of the practice folder
practice_dir ==
    {[name |-> SnapshotName, t |-> b.t, size |-> b.size] : b \in backups}
    \cup others

list_glob_only(dir) == {f \in dir : glob_gp_json(f.name)}

_list_timestamp_backups(dir) ==
    {f \in dir : glob_gp_json(f.name) /\ TIMESTAMP_RE(f.name)}

\* a listed file as an item of the selection: its time and its size
ItemOf(f) == [t |-> f.t, size |-> f.size]

EInit ==
    /\ backups \in {FilesOf(g) : g \in BackupSets}
    /\ rres = NoResult
    /\ others = OtherFiles

\* the clock of the call: the evening of the last day of the window
Clocks == {StampAt(7, 18)}

enforce_retention_for_practice(pol, clock) ==
    LET files == _list_timestamp_backups(practice_dir)
        plan == to_delete(files, pol, clock)
        done == IF pol.dry_run THEN <<>> ELSE plan
        left == practice_dir \ Range(done)
    IN  /\ backups' = {ItemOf(f) : f \in {g \in left :
                                             g.name = SnapshotName}}
        /\ others' = {f \in left : f.name # SnapshotName}
        /\ rres' = [policy |-> pol,
                    kept |-> Cardinality(keep_set_of(files, pol, clock)),
                    deleted |-> Len(done),
                    bytes_freed |-> SumSizes(done),
                    deleted_files |-> [i \in 1..Len(done) |->
                                          ItemOf(done[i])]]

ENext ==
    \E pol \in Policies, clock \in Clocks :
        enforce_retention_for_practice(pol, clock)

\* ========================================================================
\* Part F - rebuilding the search index from the documents (reindex.py)
\* ========================================================================
VARIABLES
    corpus,     \* folder -> the pratica.json found in it
    index,      \* id -> row of table pratiche of the index database
    rx,         \* outcome of the last reindex pass
    modified,   \* a document changed since the last pass
    rkill       \* the last pass that was killed before its commit

fvars == <<corpus, index, rx, modified, rkill>>

\* _iter_pratica_json walks the folders in a fixed order
Folders == <<"f1", "f2">>
MaxPasses == 2
Bodies == {"x", "y"}

\* what pratica.json of a folder can hold: nothing, text that is not JSON,
\* a JSON list, an object without id_pratica, an object with id_pratica
NoFileDoc == [kind |-> "absent", id |-> "", body |-> "x"]
Docs ==
    {NoFileDoc,
     [kind |-> "unparsable", id |-> "", body |-> "x"],
     [kind |-> "list", id |-> "", body |-> "x"],
     [kind |-> "object", id |-> "", body |-> "x"]}
    \cup [kind : {"object"}, id : PIDs, body : Bodies]

NoIndexRow == [exists |-> FALSE, hash |-> "x", path |-> "f1"]

\* _load_pratica_json: None when the text does not parse; the hash of the
\* key-sorted dump tells two parsed documents apart exactly when they differ
_load_pratica_json(doc) ==
    IF doc.kind = "unparsable" THEN [loaded |-> FALSE, hash |-> "x"]
    ELSE [loaded |-> TRUE, hash |-> doc.body]

NoKill == [status |-> "none", purge |-> FALSE, done |-> 0, writes |-> 0]

NoPass ==
    [passes |-> 0, status |-> "none", purge |-> FALSE, inserted |-> 0,
     updated |-> 0, writes |-> 0, skipped |-> 0]

\* the loop of reindex over the folders from position i; st carries the
\* table, the counters, whether an exception has left the loop, and the
\* position after which the loop ends (the last folder, or the point at
\* which the process is killed)
RECURSIVE reindex_loop(_, _)
reindex_loop(i, st) ==
    IF i > st.last \/ st.raised THEN st
    ELSE LET f == Folders[i]
             doc == corpus[f]
             l == _load_pratica_json(doc)
         IN  IF doc.kind = "absent" THEN reindex_loop(i + 1, st)
             ELSE IF ~l.loaded
             THEN reindex_loop(i + 1, [st EXCEPT !.skipped = @ + 1])
             ELSE IF doc.kind = "list"
             THEN [st EXCEPT !.raised = TRUE]
             ELSE IF doc.id = ""
             THEN reindex_loop(i + 1, [st EXCEPT !.skipped = @ + 1])
             ELSE LET old == st.table[doc.id]
                      row == [exists |-> TRUE, hash |-> l.hash, path |-> f]
                  IN  reindex_loop(i + 1,
                        [st EXCEPT
                           !.table[doc.id] = row,
                           !.writes = @ + 1,
                           !.inserted = IF old.exists THEN @ ELSE @ + 1,
                           !.updated = IF old.exists /\ old.hash # l.hash
                                       THEN @ + 1 ELSE @])

FInit ==
    /\ corpus \in [{Folders[i] : i \in 1..Len(Folders)} -> Docs]
    /\ index = [id \in PIDs |-> NoIndexRow]
    /\ rx = NoPass
    /\ modified = FALSE
    /\ rkill = NoKill

\* reindex(root, db_path, purge)
reindex(purge) ==
    LET start_table == IF purge THEN [id \in PIDs |-> NoIndexRow] ELSE index
        st == reindex_loop(1, [table |-> start_table, raised |-> FALSE,
                               inserted |-> 0, updated |-> 0, writes |-> 0,
                               skipped |-> 0, last |-> Len(Folders)])
    IN  /\ rx.passes < MaxPasses
        /\ modified' = FALSE
        /\ rkill' = NoKill
        /\ UNCHANGED corpus
        /\ IF st.raised
           THEN \* the exception leaves 'with con': rollback, no result
                /\ index' = index
                /\ rx' = [passes |-> rx.passes + 1, status |-> "raised",
                          purge |-> purge, inserted |-> 0, updated |-> 0,
                          writes |-> 0, skipped |-> 0]
           ELSE /\ index' = st.table
                /\ rx' = [passes |-> rx.passes + 1, status |-> "ok",
                          purge |-> purge, inserted |-> st.inserted,
                          updated |-> st.updated, writes |-> st.writes,
                          skipped |-> st.skipped]

\* a save, or anything else, replaces the pratica.json of one folder
EditDocument(f, doc) ==
    /\ corpus[f] # doc
    /\ corpus' = [corpus EXCEPT ![f] = doc]
    /\ modified' = TRUE
    /\ UNCHANGED <<index, rx, rkill>>

\* the table a connection of the pass sees after the DELETE of purge and
\* the upserts of the first k folders, none of them committed
pending(purge, k) ==
    reindex_loop(1, [table |-> IF purge THEN [id \in PIDs |-> NoIndexRow]
                               ELSE index,
                     raised |-> FALSE, inserted |-> 0, updated |-> 0,
                     writes |-> 0, skipped |-> 0, last |-> k])

\* the process of reindex(root, db_path, purge) is killed after k folders:
\* DELETE and the upserts ran in the one transaction that con.commit() at
\* the end of the loop would have closed, so the next connection finds
\* the table as it was
reindex_killed_autocommit(purge, k) ==
    /\ rx.passes < MaxPasses
    /\ ~pending(purge, k).raised
    /\ index' = pending(purge, k).table
    /\ rkill' = [status |-> "killed", purge |-> purge, done |-> k,
                 writes |-> pending(purge, k).writes]
    /\ UNCHANGED <<corpus, rx, modified>>

reindex_killed(purge, k) ==
    /\ rx.passes < MaxPasses
    /\ ~pending(purge, k).raised
    /\ index' = index
    /\ rkill' = [status |-> "killed", purge |-> purge, done |-> k,
                 writes |-> pending(purge, k).writes]
    /\ UNCHANGED <<corpus, rx, modified>>

FNext ==
    \/ \E purge \in BOOLEAN : reindex(purge)
    \/ \E purge \in BOOLEAN, k \in 0..Len(Folders) : reindex_killed(purge, k)
    \/ \E i \in 1..Len(Folders), doc \in Docs : EditDocument(Folders[i], doc)

\* ========================================================================
\* Part G - what write_pratica stores of a dict (repo.py, json)
\* ========================================================================
\* Part B follows the files and the lock of a save and keeps the document
\* as one tag; this part follows the keys and values of the dict through
\* json.dumps and json.loads, for one call of write_pratica at a time.
VARIABLES
    pjson,      \* pratica.json: whether it exists and the JSON object in it
    wret        \* the dict passed to the last call and how the call ended

gvars == <<pjson, wret>>

\* Python values by type
PyStr(s) == [t |-> "str", v |-> s]
PyValues ==
    {PyStr("a"), [t |-> "int", v |-> "7"], [t |-> "list", v |-> "a,b"],
     [t |-> "tuple", v |-> "a,b"], [t |-> "date", v |-> "2025-08-25"],
     [t |-> "NoneType", v |-> "null"]}
KeyId == PyStr("id_pratica")
KeyExtra == PyStr("extra")
KeyUpdatedAt == PyStr("updated_at")
KeyInt == [t |-> "int", v |-> "1"]
PyKeys == {KeyId, KeyExtra, KeyUpdatedAt, KeyInt}

\* the dicts a caller may pass: id_pratica, optionally an unknown field of
\* any type, optionally an int key, optionally updated_at
PyDicts ==
    {d \in UNION {[S -> PyValues] : S \in SUBSET PyKeys} :
        /\ KeyId \in DOMAIN d /\ d[KeyId] = PyStr("a")
        /\ KeyInt \in DOMAIN d => d[KeyInt] = PyStr("a")
        /\ KeyUpdatedAt \in DOMAIN d =>
              d[KeyUpdatedAt] \in {PyStr("a"), [t |-> "NoneType",
                                                v |-> "null"]}}

\* json.dumps of one value: str, int, None keep their kind; list and tuple
\* both become an array; a date is not serialisable
Serialisable(x) == x.t # "date"
dumps_value(x) ==
    [j |-> IF x.t = "str" THEN "string"
           ELSE IF x.t = "int" THEN "number"
           ELSE IF x.t \in {"list", "tuple"} THEN "array"
           ELSE "null",
     v |-> x.v]

\* json.loads of one value: an array becomes a list
loads_value(x) ==
    [t |-> IF x.j = "string" THEN "str"
           ELSE IF x.j = "number" THEN "int"
           ELSE IF x.j = "array" THEN "list"
           ELSE "NoneType",
     v |-> x.v]

\* _canonical_json(d): json.dumps(..., sort_keys=True) raises TypeError
\* when keys of different types have to be ordered or a value is not
\* serialisable
CanDump(d) ==
    /\ \A k \in DOMAIN d : Serialisable(d[k])
    /\ \A k1 \in DOMAIN d, k2 \in DOMAIN d : k1.t = k2.t

\* json.dumps(d): the JSON object, member names are strings
json_dumps(d) == [n \in {k.v : k \in DOMAIN d} |->
                     dumps_value(d[CHOOSE k \in DOMAIN d : k.v = n])]

\* json.loads(text): a dict with str keys
json_loads(o) == [k \in {PyStr(n) : n \in DOMAIN o} |-> loads_value(o[k.v])]

\* _now_iso()
NowIso == PyStr("now")

\* after.setdefault("updated_at", _now_iso())
setdefault_updated_at(d) ==
    [k \in DOMAIN d \cup {KeyUpdatedAt} |->
        IF k \in DOMAIN d THEN d[k] ELSE NowIso]

EmptyObject == [n \in {} |-> dumps_value(PyStr("a"))]
EmptyDict == [k \in {} |-> PyStr("a")]
NoJson == [exists |-> FALSE, obj |-> EmptyObject]
NoWrite == [status |-> "none", data |-> EmptyDict]

GInit ==
    /\ pjson = NoJson
    /\ wret = NoWrite

\* write_pratica as it would be if the dict went through the known fields
\* of the document only
write_pratica_known_fields(d) ==
    LET stamped == setdefault_updated_at(d)
        known == [k \in {KeyId, KeyUpdatedAt} |-> stamped[k]]
    IN  IF ~CanDump(stamped)
        THEN /\ wret' = [status |-> "TypeError", data |-> d]
             /\ UNCHANGED pjson
        ELSE /\ pjson' = [exists |-> TRUE, obj |-> json_dumps(known)]
             /\ wret' = [status |-> "path", data |-> d]

\* write_pratica(folder, data) with a dict, and _save_dict under it:
\* default updated_at, compare the canonical texts, write when they differ
write_pratica(d) ==
    LET stamped == setdefault_updated_at(d)
    IN  IF ~CanDump(stamped)
        THEN /\ wret' = [status |-> "TypeError", data |-> d]
             /\ UNCHANGED pjson
        ELSE /\ pjson' = IF pjson.exists /\ pjson.obj = json_dumps(stamped)
                         THEN pjson
                         ELSE [exists |-> TRUE, obj |-> json_dumps(stamped)]
             /\ wret' = [status |-> "path", data |-> d]

GNext == \E d \in PyDicts : write_pratica(d)

\* ========================================================================
\* Part H - the replay script of a practice (sql_export.py,
\*          tools/import_sql.py)
\* ========================================================================
VARIABLES
    replay      \* how far export / delete / import went, and the script

hvars == <<replay>>

\* _q(v): None is written NULL, a number as its digits, anything else as a
\* quoted string; SQLite reads the literal back
RenderedTables == {"scadenze", "documenti"}
sql_literal(r) ==
    [id_pratica |-> <<"text", r.id_pratica>>,
     uid |-> IF r.uid = NullUid THEN <<"NULL", NullUid>>
             ELSE <<"text", r.uid>>,
     pos |-> IF r.pos = NullPos THEN <<"NULL", NullPos>>
             ELSE <<"number", r.pos>>,
     val |-> <<"text", r.val>>,
     id |-> <<"number", r.id>>]
sql_value(l) ==
    [id_pratica |-> l.id_pratica[2], uid |-> l.uid[2], pos |-> l.pos[2],
     val |-> l.val[2], id |-> l.id[2]]

NoScript == [found |-> FALSE, parent |-> NoRow,
             inserts |-> [t \in RenderedTables |-> {}]]
NoReplay == [stage |-> "none", pid |-> "none", script |-> NoScript,
             before |-> [t \in Tables |-> {}], res |-> "none"]

HInit == replay = NoReplay

\* render_pratica_sql(conn, id_pratica): INSERT statements for the parent
\* row and for the rows of scadenze and documenti
render_pratica_sql(pid) ==
    /\ replay.stage = "none"
    /\ pratiche[pid].exists
    /\ replay' = [stage |-> "rendered", pid |-> pid,
                  script |-> [found |-> TRUE, parent |-> pratiche[pid],
                              inserts |-> [t \in RenderedTables |->
                                  {sql_literal(r) : r \in RowsOf(child[t],
                                                                pid)}]],
                  before |-> [t \in Tables |-> RowsOf(child[t], pid)],
                  res |-> "none"]
    /\ UNCHANGED mvars

\* DELETE FROM <table> WHERE id_pratica=? on the six tables
delete_pratica ==
    /\ replay.stage = "rendered"
    /\ replay' = [replay EXCEPT !.stage = "deleted"]
    /\ pratiche' = [pratiche EXCEPT ![replay.pid] = NoRow]
    /\ child' = [t \in Tables |-> child[t] \ RowsOf(child[t], replay.pid)]
    /\ UNCHANGED <<draft, seq, uuids, lastCall, calls>>

MaxOfIds(S, n) == IF S = {} THEN n
                  ELSE LET m == CHOOSE x \in S : \A y \in S : y.id <= x.id
                       IN  IF m.id > n THEN m.id ELSE n

\* import_sql(db_path, sql_path): the script runs in one transaction; a
\* row that hits a primary key or the unique index on uid rolls it back
import_sql ==
    LET s == replay.script
        new(t) == IF t \in RenderedTables
                  THEN {sql_value(l) : l \in s.inserts[t]} ELSE {}
        clash == \/ pratiche[replay.pid].exists
                 \/ \E t \in RenderedTables : \E r \in new(t) :
                       \E o \in child[t] :
                          o.id = r.id \/ (r.uid # NullUid /\ o.uid = r.uid)
    IN  /\ replay.stage = "deleted"
        /\ IF clash
           THEN /\ replay' = [replay EXCEPT !.stage = "imported",
                                            !.res = "IntegrityError"]
                /\ UNCHANGED mvars
           ELSE /\ replay' = [replay EXCEPT !.stage = "imported",
                                            !.res = "ok"]
                /\ pratiche' = [pratiche EXCEPT ![replay.pid] = s.parent]
                /\ child' = [t \in Tables |-> child[t] \cup new(t)]
                /\ seq' = [t \in Tables |->
                             IF t \in SerialTables
                             THEN MaxOfIds(new(t), seq[t]) ELSE seq[t]]
                /\ UNCHANGED <<draft, uuids, lastCall, calls>>

HNext ==
    \/ replay.stage = "none" /\ MNext /\ UNCHANGED hvars
    \/ /\ \/ \E pid \in PIDs : render_pratica_sql(pid)
          \/ delete_pratica
          \/ import_sql
       /\ UNCHANGED bvars

\* ========================================================================
\* Part I - concurrent runs of the save pipeline (dual_save.save_all)
\* ========================================================================
VARIABLES
    saver,      \* per process: position inside save_all, save number, data
    pfile,      \* app_pratiche/<id>/pratica.json
    lfile,      \* the fixed-name copy app_pratiche/<id>/<id>_gp.json
    started,    \* save_all calls entered so far
    aborted     \* the save numbers whose call raised

ivars == <<saver, pfile, lfile, started, aborted>>

Savers == {"s1", "s2"}
MaxStarted == 3

NoCopy == [exists |-> FALSE, by |-> 0, data |-> <<>>]
IdleSaver == [pc |-> "idle", n |-> 0, rows |-> <<>>]

IInit ==
    /\ saver = [s \in Savers |-> IdleSaver]
    /\ pfile = NoCopy
    /\ lfile = NoCopy
    /\ started = 0
    /\ aborted = {}

\* save_all(data) is entered: pid and ts are derived, nothing is written
SaveAllEnter(s, rows) ==
    /\ saver[s].pc = "idle"
    /\ started < MaxStarted
    /\ started' = started + 1
    /\ saver' = [saver EXCEPT ![s] = [pc |-> "primary", n |-> started + 1,
                                      rows |-> rows]]
    /\ UNCHANGED <<pfile, lfile, aborted, mvars>>

\* 1) _atomic_write_json(primary_json, data)
SaveAllPrimary(s) ==
    /\ saver[s].pc = "primary"
    /\ pfile' = [exists |-> TRUE, by |-> saver[s].n, data |-> saver[s].rows]
    /\ saver' = [saver EXCEPT ![s].pc = "upsert"]
    /\ UNCHANGED <<lfile, started, aborted, mvars>>

\* 2) repo_sqlite.upsert_pratica(conn, data); an exception leaves save_all
SaveAllUpsert(s) ==
    /\ saver[s].pc = "upsert"
    /\ upsert_positional(SavePid, saver[s].rows)
    /\ IF lastCall'.res = "ok"
       THEN /\ saver' = [saver EXCEPT ![s].pc = "copies"]
            /\ UNCHANGED aborted
       ELSE /\ saver' = [saver EXCEPT ![s] = IdleSaver]
            /\ aborted' = aborted \cup {saver[s].n}
    /\ UNCHANGED <<pfile, lfile, started>>

\* 3) the copies: <id>_gp.json is replaced with data (the .sql copy and the
\* timestamped copies go to files of their own)
SaveAllCopies(s) ==
    /\ saver[s].pc = "copies"
    /\ lfile' = [exists |-> TRUE, by |-> saver[s].n, data |-> saver[s].rows]
    /\ saver' = [saver EXCEPT ![s] = IdleSaver]
    /\ UNCHANGED <<pfile, started, aborted, mvars>>

INext ==
    /\ \E s \in Savers :
          \/ \E rows \in SaveRows : SaveAllEnter(s, rows)
          \/ SaveAllPrimary(s)
          \/ SaveAllUpsert(s)
          \/ SaveAllCopies(s)
    /\ UNCHANGED bvars

\* ========================================================================
\* Specifications
\* ========================================================================
\* state of the parts that follow the mirror
xvars == <<dvars, evars, fvars, gvars, hvars, ivars>>
FEmpty ==
    /\ FInit
    /\ \A i \in 1..Len(Folders) : corpus[Folders[i]] = NoFileDoc
XInit == DInit /\ backups = {} /\ rres = NoResult /\ others = {} /\ FEmpty /\ GInit /\ HInit
         /\ IInit

vars == <<avars, bvars, mvars, xvars>>

\* module repo_sqlite is repo_sqlite.py
MInstalled == MInit /\ draft = "repo_sqlite.py" /\ XInit

Init == AInit /\ BInit /\ MInstalled

\* practice creation and the identifier registry
Next == ANext /\ UNCHANGED <<bvars, mvars, xvars>>
Spec == Init /\ [][Next]_vars

\* saves and loads of the canonical document of one practice
NextStore == BNext /\ UNCHANGED <<avars, mvars, xvars>>
SpecStore == Init /\ [][NextStore]_vars

InitUnparsable == AInit /\ BInitUnparsable /\ MInstalled
SpecUnparsable == InitUnparsable /\ [][NextStore]_vars

\* upserts into the relational mirror, under either draft
InitMirror == AInit /\ BInit /\ MInit /\ XInit
NextMirror == MNext /\ UNCHANGED <<avars, xvars>>
SpecMirror == InitMirror /\ [][NextMirror]_vars

\* the save pipelines, under either draft of the mirror
NextSave == DNext /\ UNCHANGED <<avars, evars, fvars, gvars, hvars, ivars>>
SpecSave == InitMirror /\ [][NextSave]_vars

\* retention passes over one practice folder, from any small folder
InitRetention == AInit /\ BInit /\ MInit /\ draft = "repo_sqlite.py"
                 /\ DInit /\ EInit /\ FEmpty /\ GInit /\ HInit /\ IInit
NextRetention == ENext /\ UNCHANGED <<avars, bvars, mvars, dvars, fvars,
                                     gvars, hvars, ivars>>
SpecRetention == InitRetention /\ [][NextRetention]_vars

\* reindex passes and document changes, from any small corpus
InitReindex == AInit /\ BInit /\ MInit /\ draft = "repo_sqlite.py"
               /\ DInit /\ backups = {} /\ rres = NoResult /\ others = {}
               /\ FInit
               /\ GInit /\ HInit /\ IInit
NextReindex == FNext /\ UNCHANGED <<avars, bvars, mvars, dvars, evars,
                                   gvars, hvars, ivars>>
SpecReindex == InitReindex /\ [][NextReindex]_vars

\* upserts, then export, deletion and import of one practice
NextReplay == HNext /\ UNCHANGED <<avars, dvars, evars, fvars, gvars, ivars>>
SpecReplay == InitMirror /\ [][NextReplay]_vars

\* concurrent save_all calls for one practice, over either draft
NextDual == INext /\ UNCHANGED <<avars, dvars, evars, fvars, gvars, hvars>>
SpecDual == InitMirror /\ [][NextDual]_vars

\* calls of write_pratica with a dict, one at a time
NextRoundTrip == GNext /\ UNCHANGED <<avars, bvars, mvars, dvars, evars,
                                     fvars, hvars, ivars>>
SpecRoundTrip == Init /\ [][NextRoundTrip]_vars

\* The lock of write_pratica under a scheduler that keeps every live
\* process and the clock running: the writers save one document through
\* write_pratica, and a writer that is not killed always takes its next
\* step (weak fairness); a crash is never forced.
OneDocument ==
    \A w \in Writers : /\ kind'[w] = "write_pratica"
                        /\ inp'[w] \in {NullDoc, [payload |-> "x",
                                                  updated_at |-> NoTs]}
Rest == <<loaded, avars, mvars, xvars>>
LockTick == Tick /\ UNCHANGED Rest
WriterStep(w) ==
    /\ \/ LockLoop(w) \/ LockWrite(w) \/ ReadExisting(w) \/ TmpOpen(w)
       \/ TmpWrite(w) \/ Replace(w) \/ AppendHistory(w) \/ Unlock(w)
    /\ UNCHANGED Rest
NextLock ==
    \/ LockTick
    \/ \E w \in Writers : StartSave(w) /\ OneDocument /\ UNCHANGED Rest
    \/ \E w \in Writers : WriterStep(w)
    \/ \E w \in Writers : Crash(w) /\ UNCHANGED Rest
SpecLock ==
    /\ Init
    /\ [][NextLock]_vars
    /\ WF_vars(LockTick)
    /\ \A w \in Writers : WF_vars(WriterStep(w))


\* ------------------------------------------------------------------------
\* Claims about the identifier registry (checked under Spec)
\* ------------------------------------------------------------------------
Recording == {"write", "persist_read", "persist_write"}

\* some record of recs binds n/a to a practice name other than nm
BoundToOther(recs, n, a, nm) ==
    \E i \in IdMatches(recs, n, a) : recs[i].nome_pratica # nm

\* C1: two callers that each obtained a number from load_next_id (no
\* conflict dialog in between) and are recording it with
\* persist_after_save for the same year never hold the same number.
C1_DistinctNumbers ==
    \A p, q \in Procs :
        ( /\ p # q
          /\ apc[p] \in Recording /\ apc[q] \in Recording
          /\ scelta[p] = "none" /\ scelta[q] = "none"
          /\ anno[p] = anno[q] )
        => numero[p] # numero[q]

\* C7: when the registry holds exactly one record for the year, n/Y bound
\* to a name other than the one being saved, the existence check of a save
\* proposing n/Y returns (true, that name) and opens the conflict dialog,
\* and "next available" then yields n+1 - the two steps that lead the
\* scenario to two practices with distinct identifiers.
OnlyRecordOfYear(p) ==
    /\ Cardinality(IdMatches(registry, numero[p], anno[p])) = 1
    /\ NumsOfYear(registry, anno[p]) = {numero[p]}
    /\ BoundToOther(registry, numero[p], anno[p], nome[p])

C7_CollisionScenario ==
    [][\A p \in Procs :
         /\ ( apc[p] = "exists" /\ apc'[p] # "exists" /\ OnlyRecordOfYear(p) )
            => /\ esiste'[p]
               /\ nome_esistente'[p] # nome[p]
               /\ apc'[p] = "dialog"
         /\ ( apc[p] = "dialog" /\ scelta'[p] = "next" /\ apc'[p] = "write"
              /\ OnlyRecordOfYear(p) )
            => def_num'[p] = numero[p] + 1
      ]_vars

\* C8: the registry never holds two records with the same sequence/year.
C8_RegistryIdsUnique ==
    \A i, j \in 1..Len(registry) :
        i # j => ~( /\ registry[i].num_pratica = registry[j].num_pratica
                    /\ registry[i].anno_pratica = registry[j].anno_pratica )

\* C9: a save whose proposed identifier is bound in the registry to a
\* different practice name never proceeds to write without the conflict
\* dialog, and leaving the dialog with "Annulla" writes nothing.
C9_NoSilentResolution ==
    [][\A p \in Procs :
         /\ ( apc[p] = "exists"
              /\ BoundToOther(registry, numero[p], anno[p], nome[p]) )
            => apc'[p] \in {"exists", "dialog"}
         /\ ( apc[p] = "dialog" /\ apc'[p] = "idle" )
            => UNCHANGED <<registry, folderDoc, folderHist, snaps>>
      ]_vars

\* ------------------------------------------------------------------------
\* Claims about the canonical document store (checked under SpecStore)
\* ------------------------------------------------------------------------
InLock == {"read", "tmp_open", "tmp_write", "replace", "history", "unlock"}

\* what a reader of pratica.json gets
FileText == IF canon = 0 THEN NoFile ELSE ino[canon]

\* C2: a save that repeats the save that returned just before it (same
\* entry point, same document, same folder, nobody in between) is a no-op:
\* it appends nothing to history.jsonl and leaves the bytes of pratica.json
\* as they were.
C2_SecondSaveIsNoOp ==
    [][\A w \in Writers :
         repeat[w] => /\ history' = history
                      /\ FileText' = FileText
      ]_vars

\* C3: as long as nobody can have held the lock for longer than the
\* staleness threshold, at most one writer is inside the locked section of
\* a save of this practice, whichever save path the writers use.
C3_MutualExclusion ==
    now <= Stale => Cardinality({w \in Writers : wpc[w] \in InLock}) <= 1

\* C4: pratica.json, whenever it exists, holds a completely written
\* document - a reader never finds a partially written file.
C4_NeverPartial ==
    canon # 0 => ino[canon].bytes = "full"

\* C10: load_pratica raises FileNotFoundError without pratica.json and
\* ValueError on unparsable bytes, and the read-before-diff of a save never
\* carries on to write after finding the stored document unparsable.
Unparsable == canon # 0 /\ ino[canon].bytes # "full"

C10_NoSilentEmpty ==
    [][ /\ (loaded' # "none" /\ canon = 0) => loaded' = "FileNotFoundError"
        /\ (loaded' # "none" /\ Unparsable) => loaded' = "ValueError"
        /\ \A w \in Writers :
             (wpc[w] = "read" /\ Unparsable) => wpc'[w] # "tmp_open"
      ]_vars

\* ------------------------------------------------------------------------
\* Claims about the relational mirror (checked under SpecMirror)
\* ------------------------------------------------------------------------
\* every row of the collection carries its own stable id
Stable(rows) ==
    /\ \A i \in 1..Len(rows) : rows[i].uid # NoUid
    /\ \A i, j \in 1..Len(rows) : i # j => rows[i].uid # rows[j].uid

\* the rows of a table as a query sees them
Columns(t, tab) ==
    IF t \in SerialTables THEN tab ELSE {[r EXCEPT !.id = 0] : r \in tab}

\* C5: when upsert_pratica is called twice in a row with the same
\* aggregate, whose child rows all carry a stable id, the second call
\* leaves the parent row and the five child tables with the rows and values
\* the first call left.
C5_SecondUpsertIsNoOp ==
    [][ ( /\ calls' = calls + 1
          /\ lastCall.res = "ok" /\ lastCall'.res = "ok"
          /\ lastCall'.pid = lastCall.pid
          /\ lastCall'.rows = lastCall.rows
          /\ Stable(lastCall.rows) )
        => /\ pratiche' = pratiche
           /\ \A t \in Tables : Columns(t, child'[t]) = Columns(t, child[t])
      ]_vars

\* C6: after upsert_pratica of an aggregate whose rows carry stable ids the
\* parent row exists and each child table holds, for that practice, one row
\* per incoming row under the incoming id and values: rows already stored
\* under a known id are kept and updated, rows whose id is not incoming are
\* the only ones deleted, and no row of another practice is touched.
C6_ReconcileById ==
    [][ (calls' = calls + 1 /\ lastCall'.res = "ok"
         /\ Stable(lastCall'.rows))
        => LET pid == lastCall'.pid
               rows == lastCall'.rows
               inc == {rows[i].uid : i \in 1..Len(rows)}
           IN  /\ pratiche'[pid].exists
               /\ \A t \in Tables :
                    LET old == RowsOf(child[t], pid)
                        new == RowsOf(child'[t], pid)
                    IN  /\ {r.uid : r \in new} = inc
                        /\ Cardinality(new) = Len(rows)
                        /\ \A i \in 1..Len(rows) :
                             \E r \in new : /\ r.uid = rows[i].uid
                                            /\ r.val = rows[i].val
                        /\ \A r \in old :
                             (r.uid \in inc /\ t \in SerialTables) =>
                                \E q \in new : q.uid = r.uid /\ q.id = r.id
                        /\ child'[t] \ new = child[t] \ old
      ]_vars

\* ------------------------------------------------------------------------
\* Part D claims
\* ------------------------------------------------------------------------
\* the canonical document of the practice, as written by the last save
CanonicalInPlace ==
    \E x \in fs : x.path = PathOf("json_primary", SavePid, now)
                  /\ x.by = calls

\* C11: when the mirror upsert fails during a save, the canonical
\* document written by that save stays in place and the save completes
\* with a success result; the failure is only reported as a warning.
C11_MirrorFailureNonFatal ==
    ret.failed = "upsert" =>
        CanonicalInPlace /\ ret.status = "returned" /\ ret.warned

\* C12: a save returns a success result only with storage locations that
\* this call wrote: every path of the mapping returned by save_all is a
\* file written by this call.
C12_ReturnedPathsWritten ==
    (ret.fn = "save_all" /\ ret.status = "returned") =>
        \A p \in ret.paths : \E x \in fs : x.path = p /\ x.by = calls

\* the timestamped snapshots in the practice's own folder
Snapshots == {x \in fs : x.path.kind = "user_json_ts"}

\* C13: every save that writes its timestamped snapshot adds one new
\* snapshot and leaves the snapshots of the earlier saves as they were:
\* the number of snapshots grows by one with each save.
C13_SnapshotsAppendOnly ==
    [][(calls' = calls + 1
        /\ \E x \in Snapshots' : x.by = calls')
       => (Snapshots \subseteq Snapshots'
           /\ Cardinality(Snapshots') = Cardinality(Snapshots) + 1)]_vars

\* ------------------------------------------------------------------------
\* Part E claims
\* ------------------------------------------------------------------------
ArgOrZero(n) == IF n = NoneArg THEN 0 ELSE n
NewestOfBucket(f, files, tier) ==
    \A g \in files :
        bucket_fn(tier, g.t) = bucket_fn(tier, f.t) => g.t <= f.t
LastN(files, n) == Range(Prefix(SortedDesc(files), n))
SatisfiesTier(f, files, pol) ==
    \/ f \in LastN(files, pol.keep_last)
    \/ NewestOfBucket(f, files, "day")
    \/ NewestOfBucket(f, files, "week")
    \/ NewestOfBucket(f, files, "month")
TieredApply == rres'.policy.strategy = "tiered" /\ ~rres'.policy.dry_run

\* C14: a tiered retention pass keeps at most keep_last + keep_days +
\* keep_weeks + keep_months snapshots, and every snapshot it keeps is
\* among the keep_last newest or is the newest of its day, week or month.
C14_TieredKeepsOnlyTiers ==
    [][TieredApply =>
        /\ Cardinality(backups') <=
               rres'.policy.keep_last + ArgOrZero(rres'.policy.keep_days)
               + ArgOrZero(rres'.policy.keep_weeks)
               + ArgOrZero(rres'.policy.keep_months)
        /\ \A f \in backups' : SatisfiesTier(f, backups, rres'.policy)]_vars

\* C15: a dry run removes no file and reports the deletion plan (files
\* and count) that the same call without dry_run deletes.
C15_DryRunReportsPlan ==
    [][rres'.policy.dry_run =>
        /\ backups' = backups
        /\ \E clock \in Clocks :
              /\ rres'.deleted_files = to_delete(backups, rres'.policy, clock)
              /\ rres'.deleted = Len(rres'.deleted_files)]_vars

\* C16: a tiered retention pass never deletes any of the keep_last newest
\* snapshots, whatever the day, week, month tiers and the size cap are.
C16_KeepLastNeverDeleted ==
    [][TieredApply =>
        LastN(backups, rres'.policy.keep_last) \subseteq backups']_vars

\* ------------------------------------------------------------------------
\* Part F claims
\* ------------------------------------------------------------------------
ReindexStep == rx'.passes = rx.passes + 1

\* C17: an incremental reindex pass over a corpus that no one modified
\* since the previous completed pass reports zero inserted and zero
\* updated and executes no write on the index.
C17_UnchangedCorpusNoWrites ==
    [][(ReindexStep /\ ~rx'.purge /\ rx.status = "ok" /\ ~modified) =>
        /\ rx'.inserted = 0
        /\ rx'.updated = 0
        /\ rx'.writes = 0
        /\ index' = index]_vars

WellFormed(doc) == doc.kind = "object" /\ doc.id # ""

\* C18: a reindex pass is never aborted by a bad document: after a pass
\* over the corpus every well-formed document with an identifier is in
\* the index, whatever the other documents are.
C18_BadDocumentsSkipped ==
    (rx.passes > 0 /\ ~modified) =>
        /\ rx.status = "ok"
        /\ \A i \in 1..Len(Folders) :
              WellFormed(corpus[Folders[i]]) =>
                  index[corpus[Folders[i]].id].exists

\* ------------------------------------------------------------------------
\* The lock after a crash
\* ------------------------------------------------------------------------
Waiting(w) == wpc[w] = "lock_loop"
StaleLock(w) ==
    /\ lockf[LockPath(kind[w])].exists
    /\ now - lockf[LockPath(kind[w])].mtime > Stale

\* C19: a crashed lock holder does not block later saves forever: every
\* acquisition attempt ends (with the lock or with TimeoutError), a writer
\* never has to sleep once it has waited longer than the timeout, and a
\* writer that looks at a lock file older than the staleness threshold
\* goes on to take the lock.
C19_CrashedHolderDoesNotBlock ==
    /\ \A w \in Writers :
          (Waiting(w) /\ start[w] + TickStep <= MaxTime) ~> ~Waiting(w)
    /\ [](\A w \in Writers :
            (Waiting(w) /\ now - start[w] > Timeout) => ENABLED LockLoop(w))
    /\ [][\A w \in Writers :
            (Waiting(w) /\ StaleLock(w) /\ wpc'[w] \notin {"lock_loop",
                                                           "crashed"})
            => wpc'[w] = "lock_write"]_vars

\* a writer holds the lock it took over from a writer that crashed inside
\* the lock (the temp file of the crashed writer is still there)
C19_TookOverStaleLock ==
    \E w \in Writers, h \in Writers :
        /\ w # h
        /\ wpc[h] = "crashed"
        /\ tmp # 0
        /\ wpc[w] = "read"
        /\ lockf["pratica.json.lock"].owner = w
        /\ start[w] < lockf["pratica.json.lock"].mtime

\* ------------------------------------------------------------------------
\* Part G claims
\* ------------------------------------------------------------------------
\* the call returned the path of a pratica.json that parses to a dict with
\* every key of the input at the input's value and no other key, except
\* updated_at
RoundTrip ==
    /\ wret.status = "path"
    /\ pjson.exists
    /\ LET got == json_loads(pjson.obj)
       IN /\ \A k \in DOMAIN wret.data :
                k \in DOMAIN got /\ got[k] = wret.data[k]
          /\ (DOMAIN got) \ (DOMAIN wret.data) \subseteq {KeyUpdatedAt}

JsonDict(d) ==
    /\ \A k \in DOMAIN d : k.t = "str"
    /\ \A k \in DOMAIN d : d[k].t \in {"str", "int", "NoneType", "list"}

C21_ReplayRestores ==
    replay.stage = "imported" =>
        /\ replay.res = "ok"
        /\ pratiche[replay.pid].exists
        /\ \A t \in Tables :
              RowsOf(child[t], replay.pid) = replay.before[t]

\* ------------------------------------------------------------------------
\* History chain
\* ------------------------------------------------------------------------
\* C22: the History entries of a folder form a chain: the first entry has
\* no before-hash, each later entry's before-hash is the after-hash of the
\* entry before it, and once every save has returned the last after-hash
\* is the hash of the document in pratica.json.
C22_HistoryChain ==
    /\ Len(history) > 0 => history[1].before_hash = NoHash
    /\ \A i \in 2..Len(history) :
          history[i].before_hash = history[i - 1].after_hash
    /\ (Len(history) > 0 /\ \A w \in Writers : wpc[w] = "idle") =>
          /\ FileText.bytes = "full"
          /\ history[Len(history)].after_hash = sha256_pretty(FileText.doc)


\* the stable ids the mirror holds for the rows of practice pid in table t
UidsOf(tab, pid) == {r.uid : r \in RowsOf(tab, pid)}

\* C23: a child row's stable id is assigned once and never changes: when a
\* practice is upserted again with the collection it was upserted with
\* before, every mirror row of the practice carries a stable id and the ids
\* are the ones the rows had after the earlier upsert, also for rows that
\* arrived without an id.
C23_UidAssignedOnce ==
    [][ ( /\ calls' = calls + 1
          /\ lastCall.res = "ok" /\ lastCall'.res = "ok"
          /\ lastCall'.pid = lastCall.pid
          /\ lastCall'.rows = lastCall.rows
          /\ Len(lastCall.rows) > 0 )
        => \A t \in Tables :
              /\ NullUid \notin UidsOf(child'[t], lastCall.pid)
              /\ UidsOf(child'[t], lastCall.pid) = UidsOf(child[t], lastCall.pid)
      ]_vars


\* the rows table tab holds for the practices other than pid
OthersOf(tab, pid) == tab \ RowsOf(tab, pid)

\* C24: child rows are identified by the pair (practice id, stable id): an
\* upsert of one practice whose rows carry distinct stable ids never fails
\* because of the rows of another practice and leaves the rows of every
\* other practice as they were, also when both practices hold a row with the
\* same stable id.
C24_OtherPracticeUntouched ==
    [][ ( /\ calls' = calls + 1
          /\ lastCall'.res # "TypeError"
          /\ Stable(lastCall'.rows) )
        => /\ lastCall'.res = "ok"
           /\ \A t \in Tables :
                OthersOf(child'[t], lastCall'.pid) =
                    OthersOf(child[t], lastCall'.pid)
      ]_vars


\* tier is switched on in policy pol
TierOn(pol, tier) ==
    LET n == CASE tier = "day" -> pol.keep_days
               [] tier = "week" -> pol.keep_weeks
               [] OTHER -> pol.keep_months
    IN  n # NoneArg /\ n > 0

\* C25: in a tiered retention pass a snapshot kept by keep_last is the
\* representative of its day, week and month: a snapshot kept on top of the
\* keep_last newest lies, for at least one tier that is switched on, in a
\* bucket that holds none of the keep_last newest.
C25_KeptCoversBucket ==
    [][TieredApply =>
        \A f \in backups' \ LastN(backups, rres'.policy.keep_last) :
            \E tier \in {"day", "week", "month"} :
                /\ TierOn(rres'.policy, tier)
                /\ \A g \in LastN(backups, rres'.policy.keep_last) :
                      bucket_fn(tier, g.t) # bucket_fn(tier, f.t)]_vars


\* the index an uninterrupted pass leaves when it starts from table tbl
FinalIndex(tbl, purge) ==
    LET st == reindex_loop(1, [table |-> IF purge
                                          THEN [id \in PIDs |-> NoIndexRow]
                                          ELSE tbl,
                               raised |-> FALSE, inserted |-> 0,
                               updated |-> 0, writes |-> 0, skipped |-> 0,
                               last |-> Len(Folders)])
    IN  IF st.raised THEN tbl ELSE st.table

\* C26: a reindex pass that is killed between two folders, with or without
\* purge, leaves the index in a state from which a new pass, with or
\* without purge, ends with the index that the same pass ends with when it
\* starts from the index as it was before the killed pass.
C26_KilledPassCanBeRerun ==
    [][rkill'.status = "killed" /\ rkill' # rkill =>
        \A purge \in BOOLEAN :
            FinalIndex(index', purge) = FinalIndex(index, purge)]_vars

\* a pass with purge was killed after it had upserted a row, over an index
\* that holds the row of a practice whose document is no longer there
C26_KilledAfterWrites ==
    /\ rkill.status = "killed"
    /\ rkill.purge
    /\ rkill.writes > 0
    /\ \E id \in PIDs :
          /\ index[id].exists
          /\ \A i \in 1..Len(Folders) : corpus[Folders[i]].id # id


\* writer w leaves the locked section in this step
Leaves(w) == wpc[w] = "unlock" /\ wpc'[w] = "idle"

\* the lock file of w's section is the one another writer wrote after it
\* went past the lock w held (taken over as stale, or found absent)
HeldByOther(w) ==
    LET l == lockf[LockPath(kind[w])]
    IN  l.exists /\ l.owner # w

\* C27: a caller that leaves the locked section removes only its own lock:
\* when another writer has taken the lock over, the exit of the original
\* holder leaves the lock file of the new holder in place.
C27_ExitKeepsForeignLock ==
    [][\A w \in Writers :
          (Leaves(w) /\ HeldByOther(w))
          => lockf'[LockPath(kind[w])] = lockf[LockPath(kind[w])]]_vars


\* persist_after_save of process p has returned
Returned(p) == apc[p] = "dual"

\* C28: no registry record is lost: once the persist_after_save calls of
\* two processes for different practices have both returned, in any
\* interleaving, the registry holds the record of each of them.
C28_NoRecordLost ==
    \A p, q \in Procs :
        (p # q /\ Returned(p) /\ Returned(q) /\ nome[p] # nome[q])
        => \A r \in {p, q} :
              \E i \in 1..Len(registry) :
                  registry[i] = Rec(def_num[r], anno[r], nome[r])


\* ------------------------------------------------------------------------
\* Part I claims
\* ------------------------------------------------------------------------
\* every save_all call that was entered has returned, none by an exception
AllSavesCompleted ==
    /\ started > 0
    /\ \A s \in Savers : saver[s].pc = "idle"
    /\ aborted = {}

\* C29: once all saves of the practice have completed, in any interleaving
\* of concurrent saves, the fixed-name copy <id>_gp.json and pratica.json
\* hold the document of the same save, the one that wrote pratica.json
\* last.
C29_LatestMatchesCanonical ==
    AllSavesCompleted => (lfile.exists /\ lfile = pfile)


\* ------------------------------------------------------------------------
\* Retention leaves the other files alone
\* ------------------------------------------------------------------------
\* C30: retention deletes only timestamped snapshot files: whatever the
\* policy, enforce_retention_for_practice leaves pratica.json,
\* history.jsonl, the fixed-name copy <id>_gp.json and every file whose
\* name is not that of a timestamped snapshot in place and unchanged.
C30_OnlySnapshotsDeleted == [][others' = others]_vars

\* a pass that was no dry run deleted a snapshot in a folder that holds
\* the other files, one of them matched by the glob pattern alone
C30_DeletedAmongOthers ==
    /\ rres.deleted > 0
    /\ ~rres.policy.dry_run
    /\ others = OtherFiles
    /\ \E f \in others : glob_gp_json(f.name)

====
